---- MODULE Spec2Model ----
(***************************************************************************)
(* Model of the week-windowed Gantt timeline component                     *)
(* (src/components/projects/TimelineGantt.tsx).                            *)
(*                                                                         *)
(* Time.  A Date is modelled by its local wall-clock instant, counted in   *)
(* ticks since a Monday 00:00; one day is TicksPerDay ticks, so that a     *)
(* Date can carry a time of day (new Date() does, and a task's dates may). *)
(* Daylight-saving shifts are not modelled: all date-fns helpers used by   *)
(* the component work on local calendar fields.                            *)
(*                                                                         *)
(* Percentages.  The bar layout computes (offset / 7) * 100 in floating    *)
(* point.  The model keeps every percentage as an exact number of          *)
(* sevenths of a percent (the value times 7), which preserves every        *)
(* comparison and equality the layout makes.                               *)
(***************************************************************************)
EXTENDS Integers, Sequences, FiniteSets

(* ------------------------------ bounds -------------------------------- *)

\* resolution of the clock: ticks per calendar day
TicksPerDay == 2
\* weeks of the modelled calendar, numbered 0 .. NumWeeks-1
NumWeeks == 4
\* longest task list
MaxTasks == 2
\* most ticks the clock advances between two renders
MaxElapsed == 1

(* ------------------------- calendar and inputs ------------------------ *)

\* Array.from({ length: 7 })
DaysInWindow == 7

TicksPerWeek == 7 * TicksPerDay
Horizon == NumWeeks * TicksPerWeek
Instants == 0 .. (Horizon - 1)

\* task dates lie in weeks 1 .. NumWeeks-2, so that the clock can be in a
\* week before every task and in a week after every task.  Three instants
\* stand for them: the first tick of week 1 (a Monday 00:00), a Friday of
\* week 1 past midnight, and the last tick of week NumWeeks-2 (in its Sunday)
FirstTaskTick == TicksPerWeek
LastTaskTick == (NumWeeks - 1) * TicksPerWeek - 1
TaskDates == { FirstTaskTick, FirstTaskTick + 4 * TicksPerDay + 1, LastTaskTick }

\* TimelineTask: the fields the component reads, with startDate <= endDate
Task == { t \in [startDate : TaskDates, endDate : TaskDates] : t.startDate <= t.endDate }

TaskLists == UNION { [1 .. n -> Task] : n \in 0 .. MaxTasks }

\* useState<Date | null>: null is the empty sequence, a Date d is <<d>>
NULL == <<>>
Some(d) == <<d>>
\* prev ?? dflt
Coalesce(prev, dflt) == IF prev = NULL THEN dflt ELSE prev[1]

VARIABLES tasks, rangeStart, today, lastOp

vars == <<tasks, rangeStart, today, lastOp>>

(* ------------------------------ helpers ------------------------------- *)

Min2(a, b) == IF a < b THEN a ELSE b
Max2(a, b) == IF a > b THEN a ELSE b

\* function clamp(n, min, max)
clamp(n, min, max) == Max2(min, Min2(max, n))

\* date-fns startOfWeek(d, { weekStartsOn: 1 }): Monday 00:00 of d's week
startOfWeek(d) == d - (d % TicksPerWeek)

\* date-fns addDays(d, n)
addDays(d, n) == d + n * TicksPerDay

\* date-fns differenceInDays(a, b): full days between, truncated toward zero
differenceInDays(a, b) ==
  IF a >= b THEN (a - b) \div TicksPerDay ELSE 0 - ((b - a) \div TicksPerDay)

\* date-fns isWithinInterval(d, { start, end }): both ends inclusive
isWithinInterval(d, start, end) == start <= d /\ d <= end

(* -------------------------- render: window ---------------------------- *)

RECURSIVE reduceMinStart(_, _)
reduceMinStart(i, acc) ==
  IF i > Len(tasks) THEN acc
  ELSE reduceMinStart(i + 1, IF tasks[i].startDate < acc THEN tasks[i].startDate ELSE acc)

RECURSIVE reduceMaxEnd(_, _)
reduceMaxEnd(i, acc) ==
  IF i > Len(tasks) THEN acc
  ELSE reduceMaxEnd(i + 1, IF tasks[i].endDate > acc THEN tasks[i].endDate ELSE acc)

\* variant: the first task's start taken for the earliest
minDate_firstTask == tasks[1].startDate
minDate == reduceMinStart(1, tasks[1].startDate)
maxDate == reduceMaxEnd(1, tasks[1].endDate)
minWeekStart == startOfWeek(minDate)
maxWeekStart == startOfWeek(maxDate)

effectiveRangeStart == Coalesce(rangeStart, minWeekStart)
currentWeekStart == startOfWeek(effectiveRangeStart)

\* variant: the upper bound is not applied
clampToRange_lowerOnly(date) ==
  IF date < minWeekStart THEN minWeekStart ELSE date

clampToRange(date) ==
  IF date < minWeekStart THEN minWeekStart
  ELSE IF date > maxWeekStart THEN maxWeekStart
  ELSE date

\* days[1] is the code's days[0]
days ==
  LET start == startOfWeek(effectiveRangeStart)
  IN  [i \in 1 .. DaysInWindow |-> addDays(start, i - 1)]

(* ----------------------- render: today marker ------------------------ *)

todayInRange == isWithinInterval(today, days[1], addDays(days[DaysInWindow], 1))

todayIndex ==
  IF todayInRange
  THEN clamp(differenceInDays(today, days[1]), 0, DaysInWindow - 1)
  ELSE DaysInWindow \div 2

(* ----------------------- render: navigation flags --------------------- *)

rangeStartDate == days[1]
rangeEndDate == addDays(days[DaysInWindow], 1)

\* variant: the window's end is taken as part of the window
hasTasksInRange_closedEnd ==
  \E i \in 1 .. Len(tasks) :
    tasks[i].startDate <= rangeEndDate /\ tasks[i].endDate >= rangeStartDate

hasTasksInRange ==
  \E i \in 1 .. Len(tasks) :
    tasks[i].startDate < rangeEndDate /\ tasks[i].endDate >= rangeStartDate

\* variant: Previous stays enabled at the lower bound
canGoPrevious_inclusive == currentWeekStart >= minWeekStart
canGoPrevious == currentWeekStart > minWeekStart
canGoNext == currentWeekStart < maxWeekStart

(* ------------------------- render: bar layout ------------------------- *)

\* all percentages below are in sevenths of a percent
PctScale == DaysInWindow * 100

startOffset(t) == differenceInDays(t.startDate, days[1])
endOffset(t) == differenceInDays(t.endDate, days[1])

\* variant: the offset is not divided by the number of days
leftPct_unscaled(t) == clamp(startOffset(t) * 100 * DaysInWindow, 0, PctScale)
\* clamp((startOffset / totalDays) * 100, 0, 100)
leftPct(t) == clamp(startOffset(t) * 100, 0, PctScale)
\* clamp((endOffset / totalDays) * 100, 0, 100)
rightPct(t) == clamp(endOffset(t) * 100, 0, PctScale)
\* (1 / totalDays) * 100
minWidthPct == 100
\* variant: the width is taken from the unclamped offsets
widthPct_fromOffsets(t) ==
  clamp((endOffset(t) - startOffset(t)) * 100 + minWidthPct, minWidthPct, PctScale)
\* clamp(rightPct - leftPct + minWidthPct, minWidthPct, 100)
widthPct(t) == clamp(rightPct(t) - leftPct(t) + minWidthPct, minWidthPct, PctScale)

(* --------------------------- render: output --------------------------- *)

\* what the component returns: the placeholder for an empty list, else the
\* header with the two navigation buttons, the day grid, the today marker,
\* the overlay and one row with one bar per task
View ==
  IF Len(tasks) = 0
  THEN [placeholder |-> TRUE, grid |-> FALSE]
  ELSE [placeholder |-> FALSE,
        grid |-> TRUE,
        columns |-> Len(days),
        previousDisabled |-> ~canGoPrevious,
        nextDisabled |-> ~canGoNext,
        markerIndex |-> todayIndex,
        overlay |-> ~hasTasksInRange,
        rows |-> [i \in 1 .. Len(tasks) |->
                    [left |-> leftPct(tasks[i]), width |-> widthPct(tasks[i])]]]

(* ------------------------------ handlers ------------------------------ *)

\* variant: the shifted anchor is not clamped
previousUpdater_unclamped(prev) == addDays(Coalesce(prev, minWeekStart), 0 - 7)

\* the updater handlePrevious passes to setRangeStart
previousUpdater(prev) ==
  LET base == Coalesce(prev, minWeekStart)
      nextWeek == addDays(base, 0 - 7)
  IN  clampToRange(nextWeek)

\* the updater handleNext passes to setRangeStart
nextUpdater(prev) ==
  LET base == Coalesce(prev, minWeekStart)
      nextWeek == addDays(base, 7)
  IN  clampToRange(nextWeek)

\* variant: Today clamps like Previous and Next
todayBase_clamped == clampToRange(startOfWeek(today))
\* variant: Today stores the current instant itself
todayBase_unaligned == today

\* the value handleToday passes to setRangeStart
todayBase == startOfWeek(today)

(* ------------------------------ state --------------------------------- *)

Init ==
  /\ tasks \in TaskLists
  /\ rangeStart = NULL
  /\ today \in Instants
  /\ lastOp = "none"

\* every state change re-renders, and the render reads the clock again
Rerender == \E dt \in 0 .. MaxElapsed : today' = Min2(today + dt, Horizon - 1)

\* the header with the three buttons is rendered only for a non-empty list
\* (the early return for tasks.length === 0 renders none of them)
ButtonsRendered == Len(tasks) # 0

\* click on the Previous button, inert while disabled={!canGoPrevious}
handlePrevious ==
  /\ ButtonsRendered
  /\ canGoPrevious
  /\ rangeStart' = Some(previousUpdater(rangeStart))
  /\ lastOp' = "previous"
  /\ Rerender
  /\ UNCHANGED tasks

\* click on the Next button, inert while disabled={!canGoNext}
handleNext ==
  /\ ButtonsRendered
  /\ canGoNext
  /\ rangeStart' = Some(nextUpdater(rangeStart))
  /\ lastOp' = "next"
  /\ Rerender
  /\ UNCHANGED tasks

\* click on the Today button
handleToday ==
  /\ ButtonsRendered
  /\ rangeStart' = Some(todayBase)
  /\ lastOp' = "today"
  /\ Rerender
  /\ UNCHANGED tasks

Next == handlePrevious \/ handleNext \/ handleToday

Spec == Init /\ [][Next]_vars

(* ============================== claims ================================ *)

\* the anchor as an instant, for a set anchor
Anchor == rangeStart[1]
InBounds(d) == minWeekStart <= d /\ d <= maxWeekStart
\* the Monday d's week starts on, said without startOfWeek
IsWeekStartOf(m, d) == m % TicksPerWeek = 0 /\ m <= d /\ d < m + TicksPerWeek

(* C1 (as stated): with a non-empty task list, in every reachable state,
   canGoPrevious is false iff the current week-start equals minWeekStart and
   canGoNext is false iff it equals maxWeekStart. *)
C1_FlagsIffEqual ==
  ButtonsRendered =>
    /\ (~canGoPrevious) <=> (currentWeekStart = minWeekStart)
    /\ (~canGoNext) <=> (currentWeekStart = maxWeekStart)

(* C1 (amended): with a non-empty task list, in every reachable state,
   canGoPrevious is false iff the current week-start is at or before
   minWeekStart and canGoNext is false iff it is at or after maxWeekStart;
   while the anchor is unset or was last set by Previous or Next, a flag
   that is false means equality with its bound, as the claim says. *)
C1_FlagsIffAtOrBeyond ==
  ButtonsRendered =>
    /\ (~canGoPrevious) <=> (currentWeekStart <= minWeekStart)
    /\ (~canGoNext) <=> (currentWeekStart >= maxWeekStart)
    /\ lastOp # "today" =>
         /\ (~canGoPrevious) <=> (currentWeekStart = minWeekStart)
         /\ (~canGoNext) <=> (currentWeekStart = maxWeekStart)

\* after Today in a week before every task: Previous is disabled although
\* the current week-start differs from minWeekStart
C1_Witness ==
  /\ ButtonsRendered
  /\ lastOp = "today"
  /\ currentWeekStart < minWeekStart
  /\ (~canGoPrevious)
  /\ canGoNext

\* anchor values tried on the updaters: unset, every Monday 00:00 of the
\* calendar and the tick after each
AnchorValues ==
  {NULL} \cup { Some(w * TicksPerWeek + o) : w \in 0 .. (NumWeeks - 1), o \in 0 .. 1 }

(* C2: with a non-empty task list and any prior anchor value (unset, inside
   or outside the bounds), Previous sets the anchor to
   clamp(base - 7 days, minWeekStart, maxWeekStart) and Next sets it to
   clamp(base + 7 days, minWeekStart, maxWeekStart), base being the stored
   anchor or minWeekStart when unset; the anchor is then within
   [minWeekStart, maxWeekStart].  Stated of the two updaters for every
   anchor value, and of every Previous and Next step taken. *)
C2_ShiftThenClamp ==
  /\ [](ButtonsRendered =>
         LET lo == minWeekStart
             hi == maxWeekStart
         IN  \A prev \in AnchorValues :
               LET base == IF prev = NULL THEN lo ELSE prev[1]
                   p == previousUpdater(prev)
                   n == nextUpdater(prev)
               IN  /\ p = Max2(lo, Min2(hi, base - 7 * TicksPerDay))
                   /\ n = Max2(lo, Min2(hi, base + 7 * TicksPerDay))
                   /\ lo <= p /\ p <= hi
                   /\ lo <= n /\ n <= hi)
  /\ [][ LET base == IF rangeStart = NULL THEN minWeekStart ELSE rangeStart[1]
             lo == minWeekStart
             hi == maxWeekStart
         IN  /\ lastOp' = "previous" =>
                  /\ rangeStart' = Some(Max2(lo, Min2(hi, base - 7 * TicksPerDay)))
                  /\ lo <= rangeStart'[1] /\ rangeStart'[1] <= hi
             /\ lastOp' = "next" =>
                  /\ rangeStart' = Some(Max2(lo, Min2(hi, base + 7 * TicksPerDay)))
                  /\ lo <= rangeStart'[1] /\ rangeStart'[1] <= hi
       ]_vars

\* after a Previous step that clamped: only Today sets an anchor past
\* maxWeekStart, the clock has advanced at most 2 * MaxElapsed ticks since,
\* so Today had set the anchor two weeks or more past maxWeekStart and the
\* shift alone would have left it out of bounds
C2_Witness ==
  /\ ButtonsRendered
  /\ lastOp = "previous"
  /\ rangeStart = Some(maxWeekStart)
  /\ today >= maxWeekStart + 2 * TicksPerWeek + 2 * MaxElapsed

(* C3: a Today step sets the anchor to the Monday week-start of the week
   containing the current date, without clamping: when that week lies before
   minWeekStart or after maxWeekStart, the window shown after the step lies
   outside [minWeekStart, maxWeekStart]. *)
C3_TodayUnclamped ==
  [][ lastOp' = "today" =>
        /\ \E m \in Instants : IsWeekStartOf(m, today) /\ rangeStart' = Some(m)
        /\ \A m \in Instants :
             (IsWeekStartOf(m, today) /\ ~InBounds(m)) =>
               /\ days'[1] = m
               /\ ~(minWeekStart' <= days'[1] /\ days'[1] <= maxWeekStart')
    ]_vars

\* after Today, the window is in a week after every task
C3_Witness ==
  /\ ButtonsRendered
  /\ lastOp = "today"
  /\ days[1] > maxWeekStart
  /\ rangeStart = Some(days[1])

(* C4: with a non-empty task list, in every reachable state, the visible
   days are exactly 7 consecutive calendar days whose first is the Monday
   week-start of the effective anchor; with the anchor unset the first
   visible day is minWeekStart, the Monday of the week containing the
   earliest task start date. *)
C4_SevenDaysFromMonday ==
  ButtonsRendered =>
    /\ Len(days) = 7
    /\ DOMAIN days = 1 .. 7
    /\ \A i \in 1 .. 6 : days[i + 1] = days[i] + TicksPerDay
    /\ IsWeekStartOf(days[1], effectiveRangeStart)
    /\ rangeStart # NULL => effectiveRangeStart = Anchor
    /\ rangeStart = NULL =>
         /\ days[1] = minWeekStart
         /\ \E i \in 1 .. Len(tasks) :
              /\ \A j \in 1 .. Len(tasks) : tasks[i].startDate <= tasks[j].startDate
              /\ IsWeekStartOf(days[1], tasks[i].startDate)

\* the initial window of a list whose earliest start is not its first
\* task's, and falls in an earlier week
C4_Witness ==
  /\ Len(tasks) = 2
  /\ rangeStart = NULL
  /\ tasks[2].startDate < tasks[1].startDate
  /\ days[1] = startOfWeek(tasks[2].startDate)
  /\ days[1] < startOfWeek(tasks[1].startDate)

\* the number of whole days from instant a up to instant b >= a
WholeDaysBetween(a, b) ==
  CHOOSE k \in 0 .. (NumWeeks * 7) : a + k * TicksPerDay <= b /\ b < a + (k + 1) * TicksPerDay

FullyInside(t) ==
  /\ days[1] <= t.startDate
  /\ t.startDate <= t.endDate
  /\ t.endDate <= days[7]

(* C5: in every reachable window, every task fully inside the window
   (day0 <= startDate <= endDate <= day6) has leftPct <= rightPct and
   widthPct >= minWidthPct, where leftPct and rightPct are the whole-day
   offsets of its start and end from day0 as a share of 7 days and widthPct
   is rightPct - leftPct + minWidthPct, minWidthPct being 100/7 (all four
   read here in sevenths of a percent). *)
C5_InsideBarLayout ==
  ButtonsRendered =>
    \A i \in 1 .. Len(tasks) :
      LET t == tasks[i]
          row == View.rows[i]
          so == WholeDaysBetween(days[1], t.startDate)
          eo == WholeDaysBetween(days[1], t.endDate)
      IN  FullyInside(t) =>
            /\ leftPct(t) <= rightPct(t)
            /\ widthPct(t) >= minWidthPct
            /\ minWidthPct = 100
            /\ leftPct(t) = so * 100
            /\ rightPct(t) = eo * 100
            /\ widthPct(t) = rightPct(t) - leftPct(t) + minWidthPct
            /\ row = [left |-> leftPct(t), width |-> widthPct(t)]

\* a window reached by Previous holding a task that ends on a later day
\* than it starts and a task that starts after day0
C5_Witness ==
  /\ ButtonsRendered
  /\ lastOp = "previous"
  /\ \E i \in 1 .. Len(tasks) :
       /\ FullyInside(tasks[i])
       /\ leftPct(tasks[i]) < rightPct(tasks[i])
  /\ \E i \in 1 .. Len(tasks) :
       /\ FullyInside(tasks[i])
       /\ 0 < leftPct(tasks[i])

(* C6: a task entirely before the visible window (endDate earlier than
   day0) has leftPct = 0 and widthPct exactly minWidthPct: its bar renders
   with non-zero width at the left edge. *)
C6_BeforeWindowBar ==
  ButtonsRendered =>
    \A i \in 1 .. Len(tasks) :
      tasks[i].endDate < days[1] =>
        /\ leftPct(tasks[i]) = 0
        /\ widthPct(tasks[i]) = minWidthPct
        /\ View.rows[i] = [left |-> 0, width |-> minWidthPct]
        /\ minWidthPct > 0

\* a window reached by Next with a task of several days wholly before it
C6_Witness ==
  /\ ButtonsRendered
  /\ lastOp = "next"
  /\ \E i \in 1 .. Len(tasks) :
       /\ tasks[i].endDate < days[1]
       /\ startOffset(tasks[i]) < endOffset(tasks[i])
       /\ endOffset(tasks[i]) < 0

(* C7: with a non-empty task list, in every reachable window, the "no tasks
   in this week" overlay is shown iff no task's interval [startDate, endDate]
   meets the window [day0, day6 + 1 day); the grid and the task rows are
   rendered either way. *)
C7_OverlayIffNoTaskInWindow ==
  ButtonsRendered =>
    LET v == View
    IN  /\ v.overlay <=>
             ~(\E i \in 1 .. Len(tasks) : \E x \in tasks[i].startDate .. tasks[i].endDate :
                 days[1] <= x /\ x < days[7] + TicksPerDay)
        /\ v.grid
        /\ ~v.placeholder
        /\ v.columns = 7
        /\ Len(v.rows) = Len(tasks)

\* the overlay is shown after Today although a task starts at the very
\* instant the window ends
C7_Witness ==
  /\ ButtonsRendered
  /\ lastOp = "today"
  /\ ~hasTasksInRange
  /\ \E i \in 1 .. Len(tasks) : tasks[i].startDate = days[7] + TicksPerDay

(* C8: in every reachable window, the today-marker index is the whole-day
   offset of the current date from day0 when the current date is within
   [day0, day6 + 1 day), and 3 whenever it is not; it is always in 0..6. *)
C8_MarkerIndex ==
  ButtonsRendered =>
    LET inWindow == days[1] <= today /\ today < days[7] + TicksPerDay
        markerIndex == View.markerIndex
    IN  /\ inWindow => markerIndex = WholeDaysBetween(days[1], today)
        /\ ~inWindow => markerIndex = 3
        /\ markerIndex \in 0 .. 6

(* C9: with a non-empty task list, whenever the visible window lies outside
   [minWeekStart, maxWeekStart], exactly one of Previous and Next is enabled
   (Next when the window is before minWeekStart, Previous when it is after
   maxWeekStart) and one click of it brings the anchor into
   [minWeekStart, maxWeekStart]; both are disabled only when
   minWeekStart = maxWeekStart = the current week-start. *)
C9_OneClickBack ==
  ButtonsRendered =>
    /\ days[1] < minWeekStart =>
         /\ canGoNext /\ (~canGoPrevious)
         /\ InBounds(nextUpdater(rangeStart))
    /\ days[1] > maxWeekStart =>
         /\ canGoPrevious /\ (~canGoNext)
         /\ InBounds(previousUpdater(rangeStart))
    /\ ((~canGoPrevious) /\ (~canGoNext)) =>
         (minWeekStart = maxWeekStart /\ currentWeekStart = minWeekStart)

\* Today has put the window two weeks or more past maxWeekStart, where the
\* shift of one click alone does not reach the bounds
C9_Witness ==
  /\ ButtonsRendered
  /\ lastOp = "today"
  /\ days[1] >= maxWeekStart + 2 * TicksPerWeek

(* C10: with a non-empty task list, after any sequence of Previous, Next and
   Today the stored anchor is unset or a Monday week-start a whole number of
   weeks from minWeekStart, so aligning it with startOfWeek changes nothing
   and the first visible day is the effective anchor. *)
C10_AnchorWeekAligned ==
  ButtonsRendered =>
    /\ rangeStart # NULL =>
         /\ IsWeekStartOf(Anchor, Anchor)
         /\ \E n \in (0 - NumWeeks) .. NumWeeks : Anchor = minWeekStart + n * 7 * TicksPerDay
    /\ startOfWeek(effectiveRangeStart) = effectiveRangeStart
    /\ currentWeekStart = effectiveRangeStart
    /\ days[1] = effectiveRangeStart

\* the anchor set by Today at a time that was not a Monday 00:00 (the clock
\* is still in that week, more than MaxElapsed ticks into it)
C10_Witness ==
  /\ ButtonsRendered
  /\ lastOp = "today"
  /\ rangeStart # NULL
  /\ today % TicksPerWeek > MaxElapsed
  /\ today < Anchor + TicksPerWeek
====
